---- MODULE Spec2Model ----
(***************************************************************************)
(* Model of mesa/cacheable_model.py: the CacheableModel wrapper that       *)
(* flushes the data collector's per-step observations to parquet files.    *)
(*                                                                         *)
(* State of the wrapper and of its collaborators:                          *)
(*   _steps            model._steps, the step index of the wrapped model   *)
(*   model_vars        model.datacollector.model_vars, one row per collect *)
(*   model_reporters   model.datacollector.model_reporters (names)         *)
(*   agent_reporters   model.datacollector.agent_reporters (names)         *)
(*   _agent_records    CacheableModel._agent_records, set to {} by the     *)
(*                     constructor and written by no method                *)
(*   _total_steps      constructor argument total_steps                    *)
(*   _cache_step_rate  constructor argument cache_step_rate                *)
(*   _cache_state      constructor argument cache_state, "RECORD"/"REPLAY" *)
(*   fs                the file system below the working directory: a      *)
(*                     function from relative path to what occupies it     *)
(* History variables, read by the properties only:                         *)
(*   last     outcome of the most recent cache() call made at the current  *)
(*            step (NoCall when there was none)                            *)
(*   log      outcomes of the cache() calls that entered _save_to_parquet  *)
(*   calls    number of cache() calls made at the current step             *)
(*   regular  TRUE while cache() was called exactly once at every step     *)
(*            the model has left                                           *)
(*   named    the file names computed for the flush steps visited by the   *)
(*            specification of the naming scheme (SpecNames)               *)
(* Two sessions flushing into one directory (SpecRace):                    *)
(*   pc       the statement of _save_to_parquet each session is at         *)
(*   writes   the files written so far, as <<session, path>>, in order     *)
(***************************************************************************)
EXTENDS Integers, Sequences, FiniteSets, TLC

VARIABLES _steps, model_vars, model_reporters, agent_reporters,
          _agent_records, _total_steps, _cache_step_rate, _cache_state, fs,
          last, log, calls, regular, named, pc, writes

vars == <<_steps, model_vars, model_reporters, agent_reporters,
          _agent_records, _total_steps, _cache_step_rate, _cache_state, fs,
          last, log, calls, regular, named, pc, writes>>

\* ---------------------------------------------------------------- bounds
\* The model is stepped at most MaxSteps times.
MaxSteps == 300

\* cache() is called at most MaxCalls times between two steps.
MaxCalls == 2

\* The naming scheme is applied to the buckets 0..MaxBuckets.
MaxBuckets == 120

\* The sessions that share an output directory in SpecRace.
Sessions == {1, 2}

\* ------------------------------------------------------ program constants
\* self._cache_interval = 100
_cache_interval == 100

\* self.output_dir = 'output_dir'
output_dir == "output_dir"

\* ------------------------------------------------------------ Python core
Max(a, b) == IF a >= b THEN a ELSE b

Min(a, b) == IF a <= b THEN a ELSE b

\* seq[start:stop] of Python/pandas for a positional slice with step 1:
\* a negative bound counts from the end, both bounds are clipped to the
\* length, and an empty range gives the empty sequence.
PySlice(seq, start, stop) ==
    LET n  == Len(seq)
        lo == IF start < 0 THEN Max(start + n, 0) ELSE Min(start, n)
        hi == IF stop  < 0 THEN Max(stop  + n, 0) ELSE Min(stop,  n)
    IN  IF lo < hi THEN SubSeq(seq, lo + 1, hi) ELSE <<>>

\* The decimal digits of n >= 0, most significant first: str(n) as a
\* sequence of digits.
RECURSIVE Decimal(_)
Decimal(n) == IF n < 10 THEN <<n>> ELSE Decimal(n \div 10) \o <<n % 10>>

\* format(n, "0<width>") for n >= 0: the digits of n, left-filled with
\* zeros up to width; a number wider than width is rendered whole.
\* A field of exactly width characters: a wider number loses its leading
\* digits.
RECURSIVE ZeroFill_fixed_width(_, _)
ZeroFill_fixed_width(digits, width) ==
    IF Len(digits) = width \/ width = 0 THEN digits
    ELSE IF Len(digits) > width
         THEN SubSeq(digits, Len(digits) - width + 1, Len(digits))
         ELSE ZeroFill_fixed_width(<<0>> \o digits, width)

RECURSIVE ZeroFill(_, _)
ZeroFill(digits, width) ==
    IF Len(digits) >= width THEN digits ELSE ZeroFill(<<0>> \o digits, width)

DigitChar(d) == <<"0", "1", "2", "3", "4", "5", "6", "7", "8", "9">>[d + 1]

\* The text of a sequence of digits.
RECURSIVE Text(_)
Text(digits) ==
    IF digits = <<>> THEN "" ELSE DigitChar(Head(digits)) \o Text(Tail(digits))

\* itertools.chain.from_iterable over a sequence of lists.
RECURSIVE Chain(_)
Chain(lists) == IF lists = <<>> THEN <<>> ELSE Head(lists) \o Chain(Tail(lists))

\* ---------------------------------------------------------- file system
\* os.path.isfile in place of os.path.exists: a directory at the path is
\* not seen.
exists_isfile(path) == path \in DOMAIN fs /\ fs[path].kind = "file"

\* os.path.exists(path): true for a file and for a directory.  The
\* absolute path and the relative one name the same entry, the working
\* directory being fixed.
exists(path) == path \in DOMAIN fs

\* What a parquet file written from a frame holds.
FileOf(df) == [kind |-> "file", rows |-> df]

\* Entries left in output_dir by an earlier run.
Directory == [kind |-> "dir", rows |-> <<>>]

OldFile == [kind |-> "file", rows |-> <<"previous run">>]

IsOld(entry) == entry = Directory \/ entry = OldFile

\* The states output_dir can be in when the session starts.
InitialDirs ==
    { <<>>,
      [p \in {"output_dir/model_data_001.parquet"} |-> Directory],
      [p \in {"output_dir/agent_data_2.parquet"} |-> OldFile] }

\* ------------------------------------------------------- table assembly
\* pandas.DataFrame.from_records(records, columns, index=["Step","AgentID"])
\* on an iterator: one row per record, indexed by (Step, AgentID).  When the
\* iterator is exhausted at once pandas returns DataFrame(index=index,
\* columns=columns): the two index names become the labels of two rows of
\* missing values, so the frame is not empty.
from_records(records) ==
    IF records = <<>> THEN <<"Step", "AgentID">> ELSE records

\* The rows of a frame that are observations.
Records(df) == SelectSeq(df, LAMBDA r : r \notin {"Step", "AgentID"})

\* CacheableModel.get_agent_vars_dataframe, past the reporter check.
get_agent_vars_dataframe == from_records(Chain(_agent_records))

\* The window that starts at the current step instead of ending there.
get_model_vars_dataframe_ahead ==
    PySlice(model_vars, _steps, _steps + _cache_interval)

\* CacheableModel.get_model_vars_dataframe, past the reporter check: the
\* rows of model_vars at positions _steps - _cache_interval .. _steps - 1.
get_model_vars_dataframe ==
    PySlice(model_vars, _steps - _cache_interval, _steps)

\* DataFrame.empty
empty(df) == Len(df) = 0

\* ------------------------------------------------------------ file names
\* The width without the "- 1".
padding_full == Len(Decimal(_total_steps))

\* padding = len(str(self._total_steps)) - 1
padding == Len(Decimal(_total_steps)) - 1

\* The remainder in place of the quotient.
bucket_remainder == ZeroFill(Decimal(_steps % _cache_interval), padding)

\* The digits of f"{self.model._steps // self._cache_interval:0{padding}}"
bucket == ZeroFill(Decimal(_steps \div _cache_interval), padding)

model_file == output_dir \o "/model_data_" \o Text(bucket) \o ".parquet"

agent_file == output_dir \o "/agent_data_" \o Text(bucket) \o ".parquet"

\* ------------------------------------------------------------------ flush
NoCall ==
    [step |-> -1, flushed |-> FALSE, error |-> "none", bucket |-> <<>>,
     model_file |-> "", agent_file |-> "", model_df |-> <<>>,
     agent_df |-> <<>>, wrote |-> {}]

\* The outcome of a cache() call that does not flush.
NoFlush == [NoCall EXCEPT !.step = _steps]

\* The outcome of CacheableModel._save_to_parquet in the current state:
\* the exception that reaches the caller ("none" when it returns), the two
\* frames, the two paths and the paths written.
_save_to_parquet ==
    IF model_reporters = {} THEN
        [NoFlush EXCEPT !.flushed = TRUE, !.error = "UserWarning"]
    ELSE IF agent_reporters = {} THEN
        [NoFlush EXCEPT !.flushed = TRUE, !.error = "UserWarning",
                        !.model_df = get_model_vars_dataframe]
    ELSE
        LET model_df == get_model_vars_dataframe
            agent_df == get_agent_vars_dataframe
            r == [NoFlush EXCEPT !.flushed = TRUE, !.bucket = bucket,
                                 !.model_file = model_file,
                                 !.agent_file = agent_file,
                                 !.model_df = model_df,
                                 !.agent_df = agent_df]
        IN  IF exists(model_file) \/ exists(agent_file) THEN
                [r EXCEPT !.error = "FileExistsError"]
            ELSE
                [r EXCEPT !.wrote =
                    (IF empty(model_df) THEN {} ELSE {model_file}) \cup
                    (IF empty(agent_df) THEN {} ELSE {agent_file})]

\* pq.write_table for the paths the flush writes.
WriteAll(r) ==
    [p \in DOMAIN fs \cup r.wrote |->
        IF p \in r.wrote
        THEN (IF p = r.model_file THEN FileOf(r.model_df) ELSE FileOf(r.agent_df))
        ELSE fs[p]]

\* A flush at every call.
should_flush_always == TRUE

\* The interval taken from cache_step_rate, as the comment in cache() has it.
should_flush_step_rate == _steps % _cache_step_rate = 0

\* The condition under which cache() flushes.
should_flush == _steps % _cache_interval = 0

\* ---------------------------------------------------------------- actions
\* A session in simulation mode with the default cache_step_rate, after
\* construction: the reporter sets, total_steps and what an earlier run left
\* in the output directory vary.
Init ==
    /\ _steps = 0
    /\ model_vars = <<>>
    /\ model_reporters \in {{}, {"m"}}
    /\ agent_reporters \in {{}, {"a"}}
    /\ _agent_records = <<>>
    /\ _total_steps \in {7, 1000}
    /\ _cache_step_rate = 1
    /\ _cache_state = "RECORD"
    /\ fs \in InitialDirs
    /\ last = NoCall
    /\ log = <<>>
    /\ calls = 0
    /\ regular = TRUE
    /\ named = <<>>
    /\ pc = [s \in Sessions |-> "idle"]
    /\ writes = <<>>

\* One step of the wrapped model: the data collector appends the model-level
\* observation of the current step to model_vars (it has a column per model
\* reporter, hence no row without one), then the step index advances.  An
\* observation is identified by the step it was taken at.
step ==
    /\ _steps < MaxSteps
    /\ model_vars' = IF model_reporters = {} THEN model_vars
                                              ELSE Append(model_vars, _steps)
    /\ _steps' = _steps + 1
    /\ calls' = 0
    /\ regular' = (regular /\ calls = 1)
    /\ last' = NoCall
    /\ UNCHANGED <<model_reporters, agent_reporters, _agent_records,
                   _total_steps, _cache_step_rate, _cache_state, fs, log,
                   named, pc, writes>>

\* cache() with a flush that leaves the session in replay mode.
cache_enters_replay ==
    /\ calls < MaxCalls
    /\ calls' = calls + 1
    /\ IF should_flush
       THEN LET r == _save_to_parquet
            IN  /\ last' = r
                /\ log' = Append(log, r)
                /\ fs' = WriteAll(r)
                /\ _cache_state' = "REPLAY"
       ELSE /\ last' = NoFlush
            /\ UNCHANGED <<log, fs, _cache_state>>
    /\ UNCHANGED <<_steps, model_vars, model_reporters, agent_reporters,
                   _agent_records, _total_steps, _cache_step_rate, regular,
                   named, pc, writes>>

\* CacheableModel.cache()
cache ==
    /\ calls < MaxCalls
    /\ calls' = calls + 1
    /\ IF should_flush
       THEN LET r == _save_to_parquet
            IN  /\ last' = r
                /\ log' = Append(log, r)
                /\ fs' = WriteAll(r)
       ELSE /\ last' = NoFlush
            /\ UNCHANGED <<log, fs>>
    /\ UNCHANGED <<_steps, model_vars, model_reporters, agent_reporters,
                   _agent_records, _total_steps, _cache_step_rate,
                   _cache_state, regular, named, pc, writes>>

Next == step \/ cache

Spec == Init /\ [][Next]_vars

\* A session of either mode and with either cache_step_rate, after
\* construction with both reporter sets configured and an empty output
\* directory.
InitSession ==
    /\ _steps = 0
    /\ model_vars = <<>>
    /\ model_reporters = {"m"}
    /\ agent_reporters = {"a"}
    /\ _agent_records = <<>>
    /\ _total_steps \in {7, 1000}
    /\ _cache_step_rate \in {1, 2}
    /\ _cache_state \in {"RECORD", "REPLAY"}
    /\ fs = <<>>
    /\ last = NoCall
    /\ log = <<>>
    /\ calls = 0
    /\ regular = TRUE
    /\ named = <<>>
    /\ pc = [s \in Sessions |-> "idle"]
    /\ writes = <<>>

SpecSession == InitSession /\ [][Next]_vars

TypeOK ==
    /\ _steps \in 0..MaxSteps
    /\ Len(model_vars) = IF model_reporters = {} THEN 0 ELSE _steps
    /\ calls \in 0..MaxCalls
    /\ _agent_records = <<>>

\* ------------------------------------------------------ a failing writer
\* A session in simulation mode with both reporter sets configured and an
\* empty output directory.
InitIO ==
    /\ _steps = 0
    /\ model_vars = <<>>
    /\ model_reporters = {"m"}
    /\ agent_reporters = {"a"}
    /\ _agent_records = <<>>
    /\ _total_steps = 1000
    /\ _cache_step_rate = 1
    /\ _cache_state = "RECORD"
    /\ fs = <<>>
    /\ last = NoCall
    /\ log = <<>>
    /\ calls = 0
    /\ regular = TRUE
    /\ named = <<>>
    /\ pc = [s \in Sessions |-> "idle"]
    /\ writes = <<>>

\* CacheableModel.cache() when the flush passes the reporter and existence
\* checks and pa.Table.from_pandas or pq.write_table raises in one of the
\* two writes.  The exception leaves _save_to_parquet and cache() at once:
\* the statements after the failing write are not executed and nothing
\* undoes the write before it.  The failing write itself leaves no file
\* (pq.write_table removes what it had begun to write).
cache_writer_fails ==
    /\ calls < MaxCalls
    /\ calls' = calls + 1
    /\ should_flush
    /\ LET r == _save_to_parquet
       IN  /\ r.error = "none"
           /\ \E failing \in r.wrote :
                 LET f == [r EXCEPT !.error = "WriteFailure",
                                    !.wrote = IF failing = r.model_file
                                              THEN {}
                                              ELSE r.wrote \ {failing}]
                 IN  /\ last' = f
                     /\ log' = Append(log, f)
                     /\ fs' = WriteAll(f)
    /\ UNCHANGED <<_steps, model_vars, model_reporters, agent_reporters,
                   _agent_records, _total_steps, _cache_step_rate,
                   _cache_state, regular, named, pc, writes>>

NextIO == step \/ cache \/ cache_writer_fails

SpecIO == InitIO /\ [][NextIO]_vars

\* ------------------------------------- two sessions, one output directory
\* Two sessions with both reporter sets configured run the same simulation in
\* the same working directory; both runs have reached the flush step _steps
\* and both call cache().  Each statement of _save_to_parquet that looks at
\* the directory or writes to it is a step of its own, so that the
\* statements of the two sessions interleave.
InitRace ==
    /\ _steps \in {0, 100, 200, 300}
    /\ model_vars = [k \in 1.._steps |-> k - 1]
    /\ model_reporters = {"m"}
    /\ agent_reporters = {"a"}
    /\ _agent_records = <<>>
    /\ _total_steps \in {7, 1000}
    /\ _cache_step_rate = 1
    /\ _cache_state = "RECORD"
    /\ fs \in InitialDirs
    /\ last = NoCall
    /\ log = <<>>
    /\ calls = 0
    /\ regular = TRUE
    /\ named = <<>>
    /\ pc = [s \in Sessions |-> "check_model"]
    /\ writes = <<>>

RaceFrame ==
    UNCHANGED <<_steps, model_vars, model_reporters, agent_reporters,
                _agent_records, _total_steps, _cache_step_rate, _cache_state,
                last, log, calls, regular, named>>

\* Lines 129-132: if os.path.exists(model_file): raise FileExistsError
race_check_model(s) ==
    /\ pc[s] = "check_model"
    /\ pc' = [pc EXCEPT ![s] = IF exists(model_file) THEN "FileExistsError"
                                                      ELSE "check_agent"]
    /\ UNCHANGED <<fs, writes>>
    /\ RaceFrame

\* Lines 133-134: if os.path.exists(agent_file): raise FileExistsError
race_check_agent(s) ==
    /\ pc[s] = "check_agent"
    /\ pc' = [pc EXCEPT ![s] = IF exists(agent_file) THEN "FileExistsError"
                                                      ELSE "write_model"]
    /\ UNCHANGED <<fs, writes>>
    /\ RaceFrame

\* A writer that opens the file for exclusive creation: a path that has
\* come to exist is refused.
race_write_exclusive(s, path, df, next) ==
    IF path \in DOMAIN fs
    THEN /\ pc' = [pc EXCEPT ![s] = "FileExistsError"]
         /\ UNCHANGED <<fs, writes>>
    ELSE /\ fs' = [p \in DOMAIN fs \cup {path} |->
                      IF p = path THEN FileOf(df) ELSE fs[p]]
         /\ writes' = Append(writes, <<s, path>>)
         /\ pc' = [pc EXCEPT ![s] = next]

\* pq.write_table(table, path): the file is created, or replaced when the
\* path exists.
race_write(s, path, df, next) ==
    /\ fs' = [p \in DOMAIN fs \cup {path} |->
                 IF p = path THEN FileOf(df) ELSE fs[p]]
    /\ writes' = Append(writes, <<s, path>>)
    /\ pc' = [pc EXCEPT ![s] = next]

\* Lines 136-139: the model table is written unless it is empty.
race_write_model(s) ==
    /\ pc[s] = "write_model"
    /\ IF empty(get_model_vars_dataframe)
       THEN /\ pc' = [pc EXCEPT ![s] = "write_agent"]
            /\ UNCHANGED <<fs, writes>>
       ELSE race_write(s, model_file, get_model_vars_dataframe, "write_agent")
    /\ RaceFrame

\* Lines 141-144: the agent table is written unless it is empty.
race_write_agent(s) ==
    /\ pc[s] = "write_agent"
    /\ IF empty(get_agent_vars_dataframe)
       THEN /\ pc' = [pc EXCEPT ![s] = "done"]
            /\ UNCHANGED <<fs, writes>>
       ELSE race_write(s, agent_file, get_agent_vars_dataframe, "done")
    /\ RaceFrame

NextRace ==
    \E s \in Sessions :
        \/ race_check_model(s)
        \/ race_check_agent(s)
        \/ race_write_model(s)
        \/ race_write_agent(s)

SpecRace == InitRace /\ [][NextRace]_vars

\* ----------------------------------------------------- the naming scheme
\* The two paths of lines 121-124 as functions of total_steps and of the
\* step of the flush, applied to one flush step after the other.
InitNames ==
    /\ _steps = 0
    /\ model_vars = <<>>
    /\ model_reporters = {"m"}
    /\ agent_reporters = {"a"}
    /\ _agent_records = <<>>
    /\ _total_steps \in {1, 7, 10, 99, 100, 1000, 12345}
    /\ _cache_step_rate = 1
    /\ _cache_state = "RECORD"
    /\ fs = <<>>
    /\ last = NoCall
    /\ log = <<>>
    /\ calls = 0
    /\ regular = TRUE
    /\ named = <<>>
    /\ pc = [s \in Sessions |-> "idle"]
    /\ writes = <<>>

\* Compute the paths of the flush at the current step and go to the next
\* flush step.
name_files ==
    /\ _steps \div _cache_interval <= MaxBuckets
    /\ named' = Append(named, [step |-> _steps, model_file |-> model_file,
                                               agent_file |-> agent_file])
    /\ _steps' = _steps + _cache_interval
    /\ UNCHANGED <<model_vars, model_reporters, agent_reporters,
                   _agent_records, _total_steps, _cache_step_rate,
                   _cache_state, fs, last, log, calls, regular, pc, writes>>

SpecNames == InitNames /\ [][name_files]_vars

\* ------------------------------------------------- vocabulary of the claims
\* The number a sequence of decimal digits denotes.
RECURSIVE DigitsValue(_)
DigitsValue(digits) ==
    IF digits = <<>> THEN 0
    ELSE 10 * DigitsValue(SubSeq(digits, 1, Len(digits) - 1)) + digits[Len(digits)]

RECURSIVE Pow10(_)
Pow10(e) == IF e = 0 THEN 1 ELSE 10 * Pow10(e - 1)

\* The number of decimal digits of n >= 0.
NumDigits(n) == CHOOSE d \in 1..12 : (d = 1 \/ Pow10(d - 1) <= n) /\ n < Pow10(d)

ReportersConfigured == model_reporters # {} /\ agent_reporters # {}

\* The flush attempts that wrote their model file, in order.
WroteModel == SelectSeq(log, LAMBDA e : e.model_file \in e.wrote)

\* The flush attempts that wrote their agent file, in order.
WroteAgent == SelectSeq(log, LAMBDA e : e.agent_file \in e.wrote)

\* The last step at which a flush was attempted (0 when there was none).
Boundary == IF log = <<>> THEN 0 ELSE log[Len(log)].step

AllFlushesReturned == \A i \in 1..Len(log) : log[i].error = "none"

\* The set of rows of a table.
Rows(df) == { df[k] : k \in 1..Len(df) }

\* ------------------------------------------------------------------ claims

\* C1: cache() triggers the flush at step s if and only if s > 0 and
\* s mod flush_interval = 0; in particular never at step 0.
C1_FlushIffPositiveMultiple ==
    last.step >= 0 =>
        (last.flushed <=> (last.step > 0 /\ last.step % _cache_interval = 0))

\* C2 (as stated): a flush whose model or agent target path already exists
\* fails with the collision error and leaves the directory as it was.
C2_CollisionAlwaysReported ==
    [][ (last'.flushed /\ calls' = calls + 1
            /\ (model_file \in DOMAIN fs \/ agent_file \in DOMAIN fs))
        => (last'.error = "FileExistsError" /\ fs' = fs) ]_vars

\* C2 (amended): a flush whose model or agent target path already exists,
\* as a file or as a directory, writes nothing and leaves every entry of the
\* directory as it was; it fails with the collision error when both reporter
\* sets are non-empty and with the no-reporters error otherwise.
C2_CollisionWritesNothing ==
    [][ (last'.flushed /\ calls' = calls + 1
            /\ (model_file \in DOMAIN fs \/ agent_file \in DOMAIN fs))
        => /\ fs' = fs
           /\ last'.wrote = {}
           /\ last'.error = IF ReportersConfigured THEN "FileExistsError"
                                                   ELSE "UserWarning" ]_vars

\* C2 witness: a second flush at the same step has failed with the collision
\* error on the files the first one wrote, and a flush has failed on a
\* directory occupying the model path.
C2_Witness ==
    /\ Len(log) >= 2
    /\ last.error = "FileExistsError"
    /\ log[Len(log) - 1].step = last.step
    /\ log[Len(log) - 1].wrote # {}
    /\ \A p \in log[Len(log) - 1].wrote : fs[p].kind = "file"
    /\ \E i \in 1..Len(log) :
          /\ log[i].error = "FileExistsError"
          /\ log[i].model_file \in DOMAIN fs
          /\ fs[log[i].model_file] = Directory

\* C3: after every successful flush the buffer holds no model record and no
\* agent record, and at any time the buffer holds only records of the
\* interval that has not been flushed yet.
C3_BufferDrainedByFlush ==
    /\ (last.flushed /\ last.error = "none")
          => (model_vars = <<>> /\ Chain(_agent_records) = <<>>)
    /\ AllFlushesReturned
          => \A k \in 1..Len(model_vars) : model_vars[k] >= Boundary

\* C4: in a run that calls cache() once per step, no row is part of two
\* flushed tables: the model tables assembled at two different flushes share
\* no row, and the agent tables assembled at two different flushes share no
\* row.  The rows are those of the tables as get_model_vars_dataframe and
\* get_agent_vars_dataframe return them.
C4_NoRowInTwoTables ==
    (regular /\ calls <= 1)
       => \A i, j \in 1..Len(log) :
             i < j => /\ Rows(log[i].model_df) \cap Rows(log[j].model_df) = {}
                      /\ Rows(log[i].agent_df) \cap Rows(log[j].agent_df) = {}

\* C5: in a run that starts with an empty directory, calls cache() once per
\* step and sees every flush return, files come in pairs and there is one
\* pair per completed interval: every flush wrote both files or none, and the
\* directory holds as many model files, and as many agent files, as
\* intervals have been completed.
C5_OnePairPerCompletedBucket ==
    (regular /\ calls = 1 /\ AllFlushesReturned
        /\ \A p \in DOMAIN fs : ~IsOld(fs[p]))
    => /\ \A i \in 1..Len(log) :
              (log[i].model_file \in log[i].wrote)
                  <=> (log[i].agent_file \in log[i].wrote)
       /\ Len(WroteModel) = _steps \div _cache_interval
       /\ Len(WroteAgent) = _steps \div _cache_interval
       /\ Cardinality(DOMAIN fs) = 2 * (_steps \div _cache_interval)

\* The names the flushes of the checked runs are expected to use.
ExpectedBucketText ==
    [t \in {7, 1000} |->
        IF t = 1000 THEN <<"000", "001", "002", "003">>
                    ELSE <<"0", "1", "2", "3">>]

\* C6: a flush at step s targets output_dir/model_data_<b>.parquet and
\* output_dir/agent_data_<b>.parquet, where <b> denotes s // flush_interval,
\* is digits(total_steps) - 1 characters long or as long as the number when
\* that is longer, and has nothing but zeros in front of the number.
C6_FileNames ==
    (last.flushed /\ last.error # "UserWarning") =>
        LET b == last.step \div _cache_interval
            w == NumDigits(_total_steps) - 1
        IN  /\ DigitsValue(last.bucket) = b
            /\ Len(last.bucket) = Max(w, NumDigits(b))
            /\ \A k \in 1..Len(last.bucket) : last.bucket[k] \in 0..9
            /\ b <= 3 =>
                 /\ last.model_file = "output_dir/model_data_"
                        \o ExpectedBucketText[_total_steps][b + 1] \o ".parquet"
                 /\ last.agent_file = "output_dir/agent_data_"
                        \o ExpectedBucketText[_total_steps][b + 1] \o ".parquet"

\* C6 witness: with total_steps = 1000 the flush at step 300 has written
\* model_data_003 and agent_data_003.
C6_Witness ==
    /\ _total_steps = 1000
    /\ last.step = 300
    /\ last.error = "none"
    /\ last.wrote = {"output_dir/model_data_003.parquet",
                     "output_dir/agent_data_003.parquet"}

\* C7 (as stated): the file written under bucket index b holds records of
\* the steps s with s // flush_interval = b only.
C7_FileHoldsOwnBucket ==
    (last.flushed /\ last.model_file \in last.wrote) =>
        \A k \in 1..Len(last.model_df) :
            last.model_df[k] \div _cache_interval = DigitsValue(last.bucket)

\* C7 (amended): every flush at a step s >= flush_interval that returns
\* writes a model file, and the model file written under bucket index b
\* holds, from then on, exactly the records of the steps s with
\* s // flush_interval = b - 1, in step order; the agent file written with it
\* holds no record of any step.
C7_FileHoldsPreviousBucket ==
    \A i \in 1..Len(log) :
        LET e == log[i]
            b == DigitsValue(e.bucket)
        IN  /\ (e.error = "none" /\ e.step >= _cache_interval)
                  => e.model_file \in e.wrote
            /\ e.model_file \in e.wrote
                  => /\ b >= 1
                     /\ fs[e.model_file].kind = "file"
                     /\ fs[e.model_file].rows =
                            [k \in 1.._cache_interval |->
                                (b - 1) * _cache_interval + k - 1]
            /\ e.agent_file \in e.wrote
                  => Records(fs[e.agent_file].rows) = <<>>

\* C7 witness: model_data_003 exists and was written by this session at
\* step 300.
C7_Witness ==
    /\ _total_steps = 1000
    /\ \E i \in 1..Len(log) :
          /\ log[i].step = 300
          /\ log[i].model_file = "output_dir/model_data_003.parquet"
          /\ log[i].model_file \in log[i].wrote
    /\ "output_dir/model_data_003.parquet" \in DOMAIN fs

\* C8: a flush with an empty model or agent reporter set fails with the
\* no-reporters error and writes no file; a flush with both sets non-empty
\* that returns assembles an empty table for a kind whose window has no
\* record, and writes no file for that kind.
C8_ReportersAndEmptyTables ==
    last.flushed =>
        /\ ~ReportersConfigured
              => (last.error = "UserWarning" /\ last.wrote = {})
        /\ (ReportersConfigured /\ last.error = "none")
              => /\ Records(last.model_df) = <<>>
                    => (empty(last.model_df) /\ last.model_file \notin last.wrote)
                 /\ Records(last.agent_df) = <<>>
                    => (empty(last.agent_df) /\ last.agent_file \notin last.wrote)

\* C9: with sample rate N only the records of the steps s with s mod N = 0
\* are buffered and written.
C9_OnlySampledSteps ==
    /\ \A k \in 1..Len(model_vars) : model_vars[k] % _cache_step_rate = 0
    /\ \A k \in 1..Len(last.model_df) : last.model_df[k] % _cache_step_rate = 0

\* C10: the step index never goes back and a step adds one to it; a flush is
\* never attempted at an earlier step than a previous one; a flush at a later
\* step than one that wrote files targets a larger bucket; a further flush at
\* the step of one that wrote files fails with the collision error and
\* writes nothing.  The buckets written are therefore strictly increasing.
C10_BucketsNeverRevisited ==
    [][ /\ _steps' >= _steps
        /\ calls' = 0 => _steps' = _steps + 1
        /\ log' # log =>
             LET e == log'[Len(log')]
             IN  \A i \in 1..Len(log) :
                    /\ e.step >= log[i].step
                    /\ log[i].wrote # {} =>
                         /\ e.step > log[i].step =>
                               (e.error = "UserWarning"
                                  \/ DigitsValue(e.bucket) > DigitsValue(log[i].bucket))
                         /\ e.step = log[i].step =>
                               (e.error = "FileExistsError" /\ e.wrote = {})
                         /\ e.wrote # {} =>
                               DigitsValue(e.bucket) > DigitsValue(log[i].bucket)
      ]_vars

\* C10 witness: three buckets have been written one after the other, and a
\* second flush at the step of the last one has been refused.
C10_Witness ==
    /\ Len(log) >= 4
    /\ last.error = "FileExistsError"
    /\ last.step = 200
    /\ \E i, j, k \in 1..Len(log) :
          /\ i < j /\ j < k
          /\ log[i].wrote # {} /\ log[j].wrote # {} /\ log[k].wrote # {}
          /\ log[k].step = 200

\* C11: the cache mode is the one given at construction for the whole
\* session: no step and no cache() call, flushing or not, changes it.
C11_ModeNeverChanges == [][_cache_state' = _cache_state]_vars

\* C11 witness: a session constructed in replay mode has stepped, flushed and
\* written files, and is in replay mode.
C11_Witness ==
    /\ _cache_state = "REPLAY"
    /\ _steps >= _cache_interval
    /\ Len(WroteModel) >= 1
    /\ last.flushed

\* C12: with both reporter sets non-empty, cache() at step 0 creates no file:
\* the window has no row and neither file of bucket 0 is written.
C12_NoFileAtStepZero ==
    (ReportersConfigured /\ last.step = 0) =>
        /\ Records(last.model_df) = <<>>
        /\ Records(last.agent_df) = <<>>
        /\ last.wrote = {}
        /\ \A p \in DOMAIN fs : IsOld(fs[p])

\* The last multiple of the flush interval the run has reached.
LastBoundary == (_steps \div _cache_interval) * _cache_interval

\* C15: the records collected from the last flush boundary on are in no
\* file: every model file this session wrote holds only records of steps
\* before the last multiple of the flush interval, the agent files hold no
\* record, and no flush is ever made at a step that is not such a multiple.
C15_TailNeverPersisted ==
    /\ \A i \in 1..Len(log) :
          /\ log[i].step % _cache_interval = 0
          /\ log[i].model_file \in log[i].wrote
                => \A k \in 1..Len(fs[log[i].model_file].rows) :
                      fs[log[i].model_file].rows[k] < LastBoundary
          /\ log[i].agent_file \in log[i].wrote
                => Records(fs[log[i].agent_file].rows) = <<>>
    /\ \A p \in DOMAIN fs :
          IsOld(fs[p]) \/ \E i \in 1..Len(log) : p \in log[i].wrote

\* C15 witness: the run stands at step 250 with cache() called there, two
\* model files written, and the records of steps 200..249 in the buffer only.
C15_Witness ==
    /\ _steps = 250
    /\ calls >= 1
    /\ Len(WroteModel) = 2
    /\ Len(model_vars) = 250
    /\ model_vars[250] = 249

\* C17: a cache() call at a step that is not a multiple of the flush
\* interval changes nothing: no flush is attempted, so no table, no path, no
\* check and no error, and the files, the buffer, the agent records and the
\* step index are as before.
C17_NoEffectOffBoundary ==
    [][ (calls' = calls + 1 /\ _steps % _cache_interval # 0) =>
            /\ last' = [NoCall EXCEPT !.step = _steps]
            /\ log' = log
            /\ fs' = fs
            /\ model_vars' = model_vars
            /\ _agent_records' = _agent_records
            /\ _steps' = _steps ]_vars

\* C17 witness: cache() has been called at step 150, after the flush of step
\* 100 wrote its files.
C17_Witness ==
    /\ _steps = 150
    /\ last.step = 150
    /\ ~last.flushed
    /\ last.error = "none"
    /\ Len(WroteModel) = 1

\* C16: the names of different buckets differ, for the model files and for
\* the agent files, and no model file name is an agent file name.
C16_NamesInjective ==
    \A i, j \in 1..Len(named) :
        /\ named[i].model_file # named[j].agent_file
        /\ i # j => /\ named[i].model_file # named[j].model_file
                    /\ named[i].agent_file # named[j].agent_file

\* C16 witness: with total_steps = 10, a width of one character, the names
\* of bucket 1 and of bucket 11, which is wider than the width, have been
\* computed.
C16_Witness ==
    /\ _total_steps = 10
    /\ Len(named) >= 12
    /\ named[2].step = _cache_interval
    /\ named[12].step = 11 * _cache_interval
    /\ named[2].model_file = "output_dir/model_data_1.parquet"
    /\ named[12].agent_file = "output_dir/agent_data_11.parquet"

\* C14: a failure of the writer reaches the caller of cache(), and after it
\* neither target path of the bucket is occupied, so that a further attempt
\* at the same bucket meets no collision.
C14_FailedFlushLeavesNoFile ==
    /\ last.error = "WriteFailure"
          => /\ last.wrote = {}
             /\ last.model_file \notin DOMAIN fs
             /\ last.agent_file \notin DOMAIN fs
    /\ \A i \in 1..(Len(log) - 1) :
          (log[i].error = "WriteFailure" /\ log[i + 1].step = log[i].step)
              => log[i + 1].error # "FileExistsError"

\* The paths a session has written.
WrittenBy(s) == {writes[i][2] : i \in {j \in 1..Len(writes) : writes[j][1] = s}}

\* C13: the existence check excludes nobody.  A session raises the collision
\* error at a check only, never once it is past the checks, whatever the
\* other session has written meanwhile; so when both sessions have passed the
\* checks, both write every file of the bucket, neither raises, and each
\* path is written twice, the second write replacing the first.
C13_CheckIsNotALock ==
    /\ [](/\ \A s \in Sessions :
                pc[s] = "FileExistsError" => WrittenBy(s) = {}
          /\ (\A s \in Sessions : pc[s] = "done")
                => /\ WrittenBy(1) = WrittenBy(2)
                   /\ \A p \in WrittenBy(1) :
                         Cardinality({i \in 1..Len(writes) : writes[i][2] = p}) = 2)
    /\ [][\A s \in Sessions :
             pc[s] \in {"write_model", "write_agent"}
                => pc'[s] # "FileExistsError"]_vars

\* C13 witness: both sessions passed the checks of bucket 001 before either
\* wrote, neither raised, and the model file written first by one session
\* has been written again by the other.
C13_Witness ==
    /\ _steps = 100
    /\ \A s \in Sessions : pc[s] = "done"
    /\ \E i, j \in 1..Len(writes) :
          /\ i < j
          /\ writes[i][1] # writes[j][1]
          /\ writes[i][2] = writes[j][2]
          /\ writes[i][2] = model_file

====
